---- MODULE Spec2Model ----
(***************************************************************************)
(* A model of the CR3 metadata extractor (src/cr3_parser.py) and of the    *)
(* batch loop that calls it (src/app_v05.py).                              *)
(*                                                                         *)
(* Buffers are sequences of bytes (0..255).  A Python dict is a function   *)
(* whose domain is its set of keys; the empty dict is the function with    *)
(* the empty domain.  Python's None is a record field `none`.              *)
(***************************************************************************)
EXTENDS Integers, Sequences, FiniteSets, TLC

VARIABLES
    pc,         \* where the modelled call stands
    stack,      \* the activations of parse_container, innermost last
    walk_ret,   \* the dict returned by the outermost parse_container
    trunc,      \* history: the outermost walk's cmt_boxes when it first met a truncated header
    file,       \* extract_cr3_metadata: the file behind file_path
    fpos,       \* extract_cr3_metadata: f.tell()
    xhdr,       \* extract_cr3_metadata: the last header read by the top-level scan
    moov_data,  \* extract_cr3_metadata: moov_data
    cmt_boxes,  \* extract_cr3_metadata / extract_exif_tags: the collected blocks
    todo,       \* extract_exif_tags: the blocks the for loop has still to visit
    decoded,    \* history: what the tag-stream decoder did on each visited block
    raw_tags,   \* extract_exif_tags: tags; format_metadata: raw_tags
    result,     \* the dict returned by format_metadata / extract_cr3_metadata
    caught,     \* history: the exception the handler of extract_cr3_metadata caught
    raised,     \* an exception left the modelled call
    batch,      \* process_images: the files of the batch and the loop's position
    button,     \* App.start_button's state
    done_calls  \* how many times done_callback ran

walkVars == <<stack, walk_ret, trunc>>
xVars == <<file, fpos, xhdr, moov_data, cmt_boxes, caught>>
tagVars == <<todo, decoded, raw_tags>>
appVars == <<batch, button, done_calls>>
vars == <<pc, stack, walk_ret, trunc, file, fpos, xhdr, moov_data, cmt_boxes,
          todo, decoded, raw_tags, result, caught, raised, batch, button, done_calls>>

(***************************************************************************)
(* Bounds of the model.                                                    *)
(***************************************************************************)
\* Sizes are kept exactly below SizeCap and saturate at it.  Every modelled
\* buffer is far shorter, so a saturated size acts as the exact one: the
\* content read is clipped to the buffer and the seek target lies past its end.
SizeCap == 1048576
\* The number of pieces a modelled buffer is concatenated from.
MaxPieces == 2

Min(a, b) == IF a < b THEN a ELSE b

(***************************************************************************)
(* Dicts.                                                                  *)
(***************************************************************************)
EmptyDict == [k \in {} |-> <<>>]

\* dict.update(other): the keys of other are written over those of d.
DictUpdate(d, other) ==
    [k \in DOMAIN d \cup DOMAIN other |-> IF k \in DOMAIN other THEN other[k] ELSE d[k]]

\* d[key] = value
DictSet(d, key, value) == DictUpdate(d, [k \in {key} |-> value])

\* dict.get(key, default)
DictGet(d, key, default) == IF key \in DOMAIN d THEN d[key] ELSE default

(***************************************************************************)
(* Box type codes and the Canon UUID, as the bytes of the literals.        *)
(***************************************************************************)
T_moov == <<109, 111, 111, 118>>
T_trak == <<116, 114, 97, 107>>
T_mdia == <<109, 100, 105, 97>>
T_minf == <<109, 105, 110, 102>>
T_udta == <<117, 100, 116, 97>>
T_uuid == <<117, 117, 105, 100>>
T_CMT1 == <<67, 77, 84, 49>>
T_CMT2 == <<67, 77, 84, 50>>
T_CMT3 == <<67, 77, 84, 51>>
T_CMT4 == <<67, 77, 84, 52>>
\* Types the parser gives no meaning to.
T_ftyp == <<102, 116, 121, 112>>
T_free == <<102, 114, 101, 101>>

CanonUUID == <<133, 192, 182, 135, 130, 15, 17, 224, 129, 17, 244, 206, 70, 43, 106, 72>>

\* target_boxes as extract_cr3_metadata passes it.
TargetBoxes == {T_CMT1, T_CMT2, T_CMT3, T_CMT4}

ContainerTypes == {T_moov, T_trak, T_mdia, T_minf, T_udta}

\* box_type.decode() of a target type.
DecodeName(t) ==
    CASE t = T_CMT1 -> "CMT1"
      [] t = T_CMT2 -> "CMT2"
      [] t = T_CMT3 -> "CMT3"
      [] OTHER -> "CMT4"

(***************************************************************************)
(* Byte streams.                                                           *)
(***************************************************************************)
\* BytesIO.read(n) at position p: the bytes there are, at most n of them.
Read(d, p, n) ==
    IF p >= Len(d) \/ n <= 0 THEN <<>> ELSE SubSeq(d, p + 1, Min(p + n, Len(d)))

RECURSIVE BigEndian(_, _)
BigEndian(b, acc) ==
    IF b = <<>> THEN acc
    ELSE BigEndian(Tail(b), Min(acc * 256 + Head(b), SizeCap))

\* struct.unpack('>I', b)[0] and struct.unpack('>Q', b)[0], saturating at SizeCap.
Unpack(b) == BigEndian(b, 0)

\* bytes.startswith
StartsWith(b, prefix) ==
    Len(b) >= Len(prefix) /\ SubSeq(b, 1, Len(prefix)) = prefix

\* b[n:]
DropFirst(b, n) == IF Len(b) <= n THEN <<>> ELSE SubSeq(b, n + 1, Len(b))

(***************************************************************************)
(* read_box_header.  `tell` is the stream position the call leaves behind, *)
(* `raw` the bytes box_size was unpacked from.                             *)
(***************************************************************************)
\* return None, None, 0
NoBox(tell) ==
    [none |-> TRUE, box_type |-> <<>>, box_size |-> 0, header_size |-> 0,
     tell |-> tell, raw |-> <<>>]

\* `fault`: a read raised; the handler returns the sentinel.
read_box_header(d, p, fault) ==
    IF fault THEN NoBox(p)
    ELSE
    LET size_bytes == Read(d, p, 4)
        box_type == Read(d, p + 4, 4)
        after_type == p + 4 + Len(box_type)
        ext_size == Read(d, after_type, 8)
    IN  IF Len(size_bytes) < 4 THEN NoBox(p + Len(size_bytes))
        ELSE IF Unpack(size_bytes) = 1
             THEN IF Len(ext_size) < 8 THEN NoBox(after_type + Len(ext_size))
                  ELSE [none |-> FALSE, box_type |-> box_type,
                        box_size |-> Unpack(ext_size), header_size |-> 16,
                        tell |-> after_type + 8, raw |-> ext_size]
             ELSE [none |-> FALSE, box_type |-> box_type,
                   box_size |-> Unpack(size_bytes), header_size |-> 8,
                   tell |-> after_type, raw |-> size_bytes]

\* `not box_type`: None or the empty bytes.
NotBoxType(h) == h.none \/ h.box_type = <<>>

\* 2^63 - 1 - box_size for a 64-bit box_size below 2^63, saturating at SizeCap.
Headroom(raw) == Unpack([i \in 1..8 |-> IF i = 1 THEN 127 - raw[1] ELSE 255 - raw[i]])

\* io.seek(pos + box_size) raises OverflowError when the target exceeds 2^63 - 1.
SeekOverflows(pos, h) ==
    Len(h.raw) = 8 /\ (h.raw[1] >= 128 \/ pos > Headroom(h.raw))

(***************************************************************************)
(* Exceptions.  The three kinds the modelled calls can raise are all       *)
(* subclasses of Exception.                                                *)
(***************************************************************************)
Exceptions == {"OverflowError", "ValueError", "OSError"}

HandlesValueErrorOnly(e) == e = "ValueError"

\* `except Exception as e:` of extract_cr3_metadata.
Handles(e) == e \in Exceptions

\* An exception raised below parse_container or extract_cr3_metadata: it unwinds
\* every activation; the direct caller of parse_container sees it, the handler
\* of extract_cr3_metadata turns it into `return {}`.
Propagate(e) ==
    /\ stack' = <<>>
    /\ IF pc = "walk"
       THEN pc' = "raised" /\ raised' = TRUE /\ UNCHANGED <<result, caught>>
       ELSE IF Handles(e)
            THEN pc' = "done" /\ result' = EmptyDict /\ caught' = e /\ UNCHANGED raised
            ELSE pc' = "failed" /\ raised' = TRUE /\ UNCHANGED <<result, caught>>

(***************************************************************************)
(* parse_container, one activation per frame.                              *)
(*   at = "loop"     before the while test                                 *)
(*   at = "content"  a header was read, before the content is read         *)
(*   at = "call"     inside the recursive call                             *)
(*   at = "seek"     before io.seek(pos + box_size)                        *)
(*   at = "ret"      before return cmt_boxes                               *)
(* cmt0 (cmt_boxes at the start of the iteration), called (the iteration   *)
(* made a recursive call) and sub (the sub_boxes it returned) are kept for *)
(* the properties.                                                         *)
(***************************************************************************)
NewFrame(data) ==
    [data |-> data, io |-> 0, pos |-> 0, hdr |-> NoBox(0), content |-> <<>>,
     cmt |-> EmptyDict, cmt0 |-> EmptyDict, called |-> FALSE, sub |-> EmptyDict,
     at |-> "loop"]

Walking == pc \in {"walk", "parse"} /\ stack # <<>>

Top == stack[Len(stack)]

SetTop(f) == [stack EXCEPT ![Len(stack)] = f]

\* A header read at position p of d finds too few bytes for a whole header.
TruncatedAt(d, p) ==
    \/ Len(d) - p < 8
    \/ Unpack(Read(d, p, 4)) = 1 /\ Len(d) - p < 16

\* while io.tell() < len(data): pos = io.tell(); read_box_header(io);
\* if not box_type: break
LoopHead ==
    /\ Walking
    /\ Top.at = "loop"
    /\ LET f == Top
           h == read_box_header(f.data, f.io, FALSE)
       IN  IF f.io >= Len(f.data)
           THEN stack' = SetTop([f EXCEPT !.at = "ret"]) /\ UNCHANGED trunc
           ELSE /\ stack' = SetTop([f EXCEPT !.pos = f.io, !.hdr = h, !.io = h.tell,
                                            !.cmt0 = f.cmt, !.content = <<>>,
                                            !.called = FALSE, !.sub = EmptyDict,
                                            !.at = IF NotBoxType(h) THEN "ret" ELSE "content"])
                /\ trunc' = IF Len(stack) = 1 /\ ~trunc.seen /\ TruncatedAt(f.data, f.io)
                            THEN [seen |-> TRUE, cmt |-> f.cmt]
                            ELSE trunc
    /\ UNCHANGED <<pc, walk_ret, result, raised>>
    /\ UNCHANGED <<xVars, tagVars, appVars>>

HasSixteenBytes(content) == Len(content) >= 16

\* content.startswith(<the Canon UUID>)
HasCanonPrefix(content) == StartsWith(content, CanonUUID)

\* content_size = box_size - header_size; content = io.read(content_size) if
\* content_size > 0 else b''; then the if / elif chain.
Dispatch ==
    /\ Walking
    /\ Top.at = "content"
    /\ LET f == Top
           h == f.hdr
           content_size == h.box_size - h.header_size
           content == IF content_size > 0 THEN Read(f.data, f.io, content_size) ELSE <<>>
           g == [f EXCEPT !.content = content, !.io = f.io + Len(content)]
       IN  IF h.box_type = T_uuid /\ HasCanonPrefix(content)
           THEN stack' = Append(SetTop([g EXCEPT !.at = "call"]),
                                NewFrame(DropFirst(content, 16)))
           ELSE IF h.box_type \in TargetBoxes
           THEN stack' = SetTop([g EXCEPT !.cmt = DictSet(f.cmt, DecodeName(h.box_type), content),
                                            !.at = "seek"])
           ELSE IF h.box_type \in ContainerTypes
           THEN stack' = Append(SetTop([g EXCEPT !.at = "call"]), NewFrame(content))
           ELSE stack' = SetTop([g EXCEPT !.at = "seek"])
    /\ UNCHANGED <<pc, walk_ret, trunc, result, raised>>
    /\ UNCHANGED <<xVars, tagVars, appVars>>

\* return cmt_boxes; in the caller: cmt_boxes.update(sub_boxes)
Return ==
    /\ Walking
    /\ Top.at = "ret"
    /\ IF Len(stack) > 1
       THEN LET c == stack[Len(stack) - 1]
            IN  /\ stack' = [SubSeq(stack, 1, Len(stack) - 1) EXCEPT ![Len(stack) - 1] =
                                [c EXCEPT !.cmt = DictUpdate(c.cmt, Top.cmt),
                                          !.called = TRUE, !.sub = Top.cmt, !.at = "seek"]]
                /\ UNCHANGED <<pc, walk_ret, cmt_boxes>>
       ELSE /\ stack' = <<>>
            /\ walk_ret' = Top.cmt
            /\ IF pc = "walk"
               THEN pc' = "returned" /\ UNCHANGED cmt_boxes
               ELSE pc' = "parsed" /\ cmt_boxes' = Top.cmt
    /\ UNCHANGED <<trunc, result, raised, caught>>
    /\ UNCHANGED <<file, fpos, xhdr, moov_data, tagVars, appVars>>

SeekTargetNoSeek(f) == f.io

\* the argument of io.seek(pos + box_size)
SeekTarget(f) == f.pos + f.hdr.box_size

Seek ==
    /\ Walking
    /\ Top.at = "seek"
    /\ IF SeekOverflows(Top.pos, Top.hdr)
       THEN /\ Propagate("OverflowError")
            /\ UNCHANGED walk_ret
       ELSE /\ stack' = SetTop([Top EXCEPT !.io = SeekTarget(Top), !.at = "loop"])
            /\ UNCHANGED <<pc, walk_ret, result, raised, caught>>
    /\ UNCHANGED <<trunc, file, fpos, xhdr, moov_data, cmt_boxes>>
    /\ UNCHANGED <<tagVars, appVars>>

(***************************************************************************)
(* The buffers the walk is checked on, built in the wire format            *)
(* read_box_header reads: a big-endian 32-bit size, a 4-byte type, and     *)
(* after a size field of 1 a big-endian 64-bit size.                       *)
(***************************************************************************)
U32(n) == <<0, 0, n \div 256, n % 256>>

\* A box that declares `size`, whatever its content.
BoxSized(size, type, content) == U32(size) \o type \o content

\* A box that declares its true size.
Box(type, content) == BoxSized(8 + Len(content), type, content)

\* A box with a 64-bit size, given as its 8 bytes.
ExtBox(sizeBytes, type, content) == U32(1) \o type \o sizeBytes \o content

\* 16 bytes that differ from the Canon UUID in the last one only.
OtherUUID == [CanonUUID EXCEPT ![16] = 73]

Pieces ==
    { Box(T_CMT1, <<1>>),
      Box(T_CMT1, <<9, 9>>),
      Box(T_CMT2, <<2>>),
      Box(T_trak, Box(T_mdia, Box(T_CMT3, <<3>>))),
      Box(T_uuid, CanonUUID \o Box(T_CMT1, <<7>>)),
      Box(T_uuid, OtherUUID \o Box(T_CMT2, <<8>>)),
      Box(T_uuid, OtherUUID \o Box(T_udta, Box(T_CMT3, <<8>>))),
      Box(T_free, Box(T_CMT4, <<4>>)),
      BoxSized(0, T_free, <<>>),
      BoxSized(4, T_free, <<>>),
      BoxSized(200, T_CMT3, <<5>>),
      BoxSized(200, T_udta, Box(T_CMT4, <<6>>)),
      ExtBox(<<0, 0, 0, 0, 0, 0, 0, 17>>, T_CMT2, <<2>>),
      ExtBox(<<128, 0, 0, 0, 0, 0, 0, 0>>, T_free, <<>>),
      ExtBox(<<127, 255, 255, 255, 255, 255, 255, 250>>, T_free, <<>>) }

\* What a buffer cut short ends with: nothing, or part of a header.
Tails ==
    { <<>>,
      <<0, 0, 0>>,
      <<0, 0, 0, 16>>,
      <<0, 0, 0, 16, 67>>,
      <<0, 0, 0, 2, 67, 77, 84>>,
      <<0, 0, 0, 0, 67>>,
      U32(1) \o T_CMT1 \o <<0, 0, 0>> }

RECURSIVE Concats(_)
\* The concatenations of at most n pieces.
Concats(n) ==
    IF n = 0 THEN {<<>>}
    ELSE LET shorter == Concats(n - 1)
         IN  shorter \cup {b \o q : b \in shorter, q \in Pieces}

Buffers == {b \o t : b \in Concats(MaxPieces), t \in Tails}

(***************************************************************************)
(* Values of the variables a specification does not use.                   *)
(***************************************************************************)
NoFile == [exists |-> FALSE, bytes |-> <<>>, flaky |-> FALSE]

NoBatch ==
    [files |-> <<>>, dirs_ok |-> FALSE, sort |-> FALSE, at |-> "idle", i |-> 1,
     processed |-> 0, after |-> 0]

WalkIdle ==
    /\ stack = <<>>
    /\ walk_ret = EmptyDict
    /\ trunc = [seen |-> FALSE, cmt |-> EmptyDict]

ExtractIdle ==
    /\ file = NoFile
    /\ fpos = 0
    /\ xhdr = NoBox(0)
    /\ moov_data = <<>>
    /\ cmt_boxes = EmptyDict
    /\ caught = "none"

TagsIdle ==
    /\ todo = {}
    /\ decoded = EmptyDict
    /\ raw_tags = EmptyDict

AppIdle ==
    /\ batch = NoBatch
    /\ button = "normal"
    /\ done_calls = 0

(***************************************************************************)
(* Spec: parse_container called on a buffer.                               *)
(***************************************************************************)
Init ==
    /\ pc = "walk"
    /\ \E b \in Buffers : stack = <<NewFrame(b)>>
    /\ walk_ret = EmptyDict
    /\ trunc = [seen |-> FALSE, cmt |-> EmptyDict]
    /\ result = EmptyDict
    /\ raised = FALSE
    /\ ExtractIdle
    /\ TagsIdle
    /\ AppIdle

Next == LoopHead \/ Dispatch \/ Return \/ Seek

Spec == Init /\ [][Next]_vars

\* The interpreter runs the call's next statement.
FairSpec == Init /\ [][Next]_vars /\ WF_vars(Next)

(***************************************************************************)
(* Properties of parse_container and read_box_header.                      *)
(***************************************************************************)
Frames == {stack[i] : i \in 1..Len(stack)}

\* C1: for every buffer, also one holding a box whose declared size is smaller
\* than its header, the walk of parse_container ends: the call does not stay in
\* its loop for ever.
WalkTerminates == <>(pc # "walk")

\* C5: read_box_header never returns a success triple whose type code is empty
\* or shorter than 4 bytes: every short read gives the failure sentinel.
HeaderTypeWhole ==
    \A f \in Frames : ~f.hdr.none => Len(f.hdr.box_type) = 4

\* C6: once the outermost walk has met a truncated header, parse_container
\* returns, and returns exactly the blocks it had collected up to there.
TruncatedKeepsCollected ==
    trunc.seen ~> (pc = "returned" /\ walk_ret = trunc.cmt)

\* C7: a uuid box is walked exactly when its content starts with the Canon
\* UUID; the walk is of the content after the 16-byte prefix, every block it
\* returns is in cmt_boxes afterwards, and a uuid box with another prefix
\* leaves cmt_boxes as it was.
CanonUuidUnwrapped ==
    \A i \in 1..Len(stack) :
        LET f == stack[i]
            canon == StartsWith(f.content, CanonUUID)
        IN  f.hdr.box_type = T_uuid =>
              /\ f.at = "call" =>
                    canon /\ stack[i + 1].data = DropFirst(f.content, 16)
              /\ (f.at = "seek" /\ canon) =>
                    /\ f.called
                    /\ \A k \in DOMAIN f.sub : k \in DOMAIN f.cmt /\ f.cmt[k] = f.sub[k]
              /\ (f.at = "seek" /\ ~canon) => ~f.called /\ f.cmt = f.cmt0

\* C7's case: a Canon uuid box was unwrapped and gave a block, in a walk that
\* also passed over a uuid box with another prefix.
CanonUuidWitness ==
    /\ pc = "walk"
    /\ \E f \in Frames :
          /\ f.at = "seek"
          /\ f.hdr.box_type = T_uuid
          /\ StartsWith(f.content, CanonUUID)
          /\ DOMAIN f.sub # {}
          /\ f.pos > 0

\* C10: at the start of the iteration after a box whose header was read, the
\* cursor is box_start + box_size, whatever was read or walked in between.
CursorAtDeclaredEnd ==
    \A f \in Frames :
        (f.at = "loop" /\ ~f.hdr.none) => f.io = f.pos + f.hdr.box_size

\* C10's case: after a recursive walk of a box that declares more than the
\* buffer holds, the cursor is past the end, not where the reading stopped.
CursorWitness ==
    \E f \in Frames :
        /\ f.at = "loop"
        /\ ~f.hdr.none
        /\ f.called
        /\ f.io > Len(f.data)
        /\ f.io # f.hdr.tell + Len(f.content)

(***************************************************************************)
(* extract_exif_tags.  The tag-stream decoder (exifread.process_file) is   *)
(* outside the repository: what it does on a block is an outcome, fixed    *)
(* per block, that either raises or gives a tag map.                       *)
(***************************************************************************)
BlockNames == {"CMT1", "CMT2", "CMT3", "CMT4"}

\* Tag maps a decoder may give, values already as str() renders them.
TagMaps ==
    { EmptyDict,
      [t \in {"Image Make", "Image Model", "Image DateTime"} |->
          CASE t = "Image Make" -> "Canon"
            [] t = "Image Model" -> "EOS R5"
            [] OTHER -> "2023:07:04 10:15:30"],
      [t \in {"Image Make", "EXIF DateTimeOriginal"} |->
          IF t = "Image Make" THEN "Canon" ELSE "not a date"],
      [t \in {"EXIF FocalLength", "EXIF ExposureTime", "Image FNumber", "EXIF ISOSpeedRatings"} |->
          CASE t = "EXIF FocalLength" -> "50"
            [] t = "EXIF ExposureTime" -> "1/200"
            [] t = "Image FNumber" -> "4"
            [] OTHER -> "100"],
      [t \in {"Image FocalLength"} |-> "0/0"],
      [t \in {"EXIF LensModel", "Image LensModel"} |->
          IF t = "EXIF LensModel" THEN "RF50mm" ELSE "other lens"] }

Outcomes ==
    {[ok |-> FALSE, tags |-> EmptyDict]} \cup {[ok |-> TRUE, tags |-> m] : m \in TagMaps}

\* The dict a block's branch passes to tags.update.
BlockFields(cmt_type, temp_tags) ==
    CASE cmt_type = "CMT1" ->
           [k \in {"camera_make", "camera_model", "date_taken"} |->
              CASE k = "camera_make" -> DictGet(temp_tags, "Image Make", "Unknown")
                [] k = "camera_model" -> DictGet(temp_tags, "Image Model", "Unknown")
                [] OTHER -> DictGet(temp_tags, "Image DateTime",
                                    DictGet(temp_tags, "EXIF DateTimeOriginal", "Unknown"))]
      [] cmt_type = "CMT2" ->
           [k \in {"focal_length", "exposure", "aperture", "iso"} |->
              CASE k = "focal_length" -> DictGet(temp_tags, "Image FocalLength",
                                                 DictGet(temp_tags, "EXIF FocalLength", "Unknown"))
                [] k = "exposure" -> DictGet(temp_tags, "Image ExposureTime",
                                             DictGet(temp_tags, "EXIF ExposureTime", "Unknown"))
                [] k = "aperture" -> DictGet(temp_tags, "Image FNumber",
                                             DictGet(temp_tags, "EXIF FNumber", "Unknown"))
                [] OTHER -> DictGet(temp_tags, "Image ISOSpeedRatings",
                                    DictGet(temp_tags, "EXIF ISOSpeedRatings", "Unknown"))]
      [] cmt_type = "CMT3" ->
           [k \in {"lens_model"} |->
              DictGet(temp_tags, "MakerNote LensModel",
                      DictGet(temp_tags, "EXIF LensModel",
                              DictGet(temp_tags, "Image LensModel", "Unknown")))]
      [] OTHER -> EmptyDict

AbortOnDecodeError(rest) == {}

\* `except Exception as e:` inside the for loop: the loop goes on with the
\* blocks that are left.
AfterDecodeError(rest) == rest

\* One iteration of `for cmt_type, data in cmt_data.items()`.  The model visits
\* the blocks in any order; the dict's own order is one of them.
ExifStep ==
    /\ pc = "exif"
    /\ todo # {}
    /\ \E cmt_type \in todo :
          LET rest == todo \ {cmt_type} IN
          IF decoded[cmt_type].ok
          THEN /\ raw_tags' = DictUpdate(raw_tags, BlockFields(cmt_type, decoded[cmt_type].tags))
               /\ todo' = rest
          ELSE /\ raw_tags' = raw_tags
               /\ todo' = AfterDecodeError(rest)
    /\ UNCHANGED <<pc, decoded, result, raised, walkVars, xVars, appVars>>

(***************************************************************************)
(* format_metadata.  datetime.strptime, strftime and the focal-length      *)
(* arithmetic are given on the strings the modelled tag maps and Raw Tag   *)
(* Maps hold.                                                              *)
(***************************************************************************)
ColonFormat == "%Y:%m:%d %H:%M:%S"

HyphenFormat == "%Y-%m-%d %H:%M:%S"

\* The strings each pattern accepts, with the datetime they denote.
Accepted(fmt) ==
    IF fmt = ColonFormat
    THEN [s \in {"2023:07:04 10:15:30"} |-> <<2023, 7, 4, 10, 15, 30>>]
    ELSE [s \in {"2023-07-04 10:15:30"} |-> <<2023, 7, 4, 10, 15, 30>>]

\* datetime.strptime(s, fmt): ok is FALSE where it raises ValueError.
Strptime(s, fmt) ==
    IF s \in DOMAIN Accepted(fmt)
    THEN [ok |-> TRUE, dt |-> Accepted(fmt)[s]]
    ELSE [ok |-> FALSE, dt |-> <<>>]

\* dt.strftime('%Y-%m-%d %H:%M:%S')
Strftime(dt) == CHOOSE s \in DOMAIN Accepted(HyphenFormat) : Accepted(HyphenFormat)[s] = dt

\* focal_str.replace('mm', '').strip().split(), then parts[0] if parts else ''
FocalToken(focal_str) ==
    CASE focal_str = "50.0 mm" -> "50.0"
      [] focal_str = "50 mm" -> "50"
      [] focal_str = "mm" -> ""
      [] OTHER -> focal_str

\* The focal_length the try block computes; ok is FALSE where it raises
\* (float() of a non-number, a division by zero).
FocalText(focal_str) ==
    LET value == FocalToken(focal_str)
    IN  CASE value = "50/1" -> [ok |-> TRUE, text |-> "50.0 mm"]
          [] value = "50" -> [ok |-> TRUE, text |-> "50.0 mm"]
          [] value = "50.0" -> [ok |-> TRUE, text |-> "50.0 mm"]
          [] OTHER -> [ok |-> FALSE, text |-> ""]

\* The for loop over the two patterns.
FormatDate(date_str) ==
    IF Strptime(date_str, ColonFormat).ok
    THEN Strftime(Strptime(date_str, ColonFormat).dt)
    ELSE IF Strptime(date_str, HyphenFormat).ok
         THEN Strftime(Strptime(date_str, HyphenFormat).dt)
         ELSE date_str

DirectKeys == {"camera_make", "camera_model", "lens_model", "exposure", "aperture", "iso"}

format_metadata(raw) ==
    LET focal_str == DictGet(raw, "focal_length", "Unknown")
        dated == [k \in {"date_taken"} |-> FormatDate(DictGet(raw, "date_taken", "Unknown"))]
        focal == IF focal_str # "Unknown"
                 THEN [k \in {"focal_length"} |->
                          IF FocalText(focal_str).ok THEN FocalText(focal_str).text
                          ELSE "Unknown"]
                 ELSE EmptyDict
        direct == [k \in DirectKeys |-> DictGet(raw, k, "Unknown")]
    IN  DictUpdate(DictUpdate(dated, focal), direct)

\* return format_metadata(raw_tags)
Format ==
    /\ pc = "format"
    /\ result' = format_metadata(raw_tags)
    /\ pc' = "done"
    /\ UNCHANGED <<raised, walkVars, xVars, tagVars, appVars>>

(***************************************************************************)
(* extract_cr3_metadata.  The file is its bytes; a flaky file is one whose *)
(* reads and seeks may raise OSError.                                      *)
(*   pc = "open"     before open(file_path, 'rb')                          *)
(*   pc = "scan"     at `while True:` of the top-level scan                *)
(*   pc = "scanned"  at `if not moov_data:`                                *)
(*   pc = "parse"    inside parse_container(moov_data, ...)                *)
(*   pc = "parsed"   at `if not cmt_boxes:`                                *)
(*   pc = "exif"     inside extract_exif_tags                              *)
(*   pc = "format"   at `return format_metadata(raw_tags)`                 *)
(*   pc = "done"     returned;  pc = "failed"  left by an exception        *)
(***************************************************************************)
Faults == IF file.flaky THEN {FALSE, TRUE} ELSE {FALSE}

\* return {}
ReturnEmpty == pc' = "done" /\ result' = EmptyDict /\ UNCHANGED <<raised, caught>>

\* with open(file_path, 'rb') as f:
Open ==
    /\ pc = "open"
    /\ IF file.exists
       THEN pc' = "scan" /\ UNCHANGED <<result, raised, caught, stack>>
       ELSE Propagate("OSError")
    /\ UNCHANGED <<walk_ret, trunc, file, fpos, xhdr, moov_data, cmt_boxes>>
    /\ UNCHANGED <<tagVars, appVars>>

\* f.read(n) of a file object: the rest of the file for n = -1, ValueError below.
FileRead(d, p, n) == IF n = -1 THEN Read(d, p, Len(d)) ELSE Read(d, p, n)

\* f.seek(target) of a file object: ValueError from 2^63 on; the file system
\* may refuse (OSError) an offset a 64-bit size puts beyond its largest.
SeekErrors(pos, h) ==
    IF SeekOverflows(pos, h) THEN {"ValueError"}
    ELSE IF Len(h.raw) = 8 /\ h.box_size >= SizeCap THEN {"none", "OSError"}
    ELSE {"none"}

\* One iteration of the top-level scan.
Scan ==
    /\ pc = "scan"
    /\ \E hfault \in Faults, fault \in Faults :
          LET h == read_box_header(file.bytes, fpos, hfault)
              n == h.box_size - h.header_size
          IN  /\ xhdr' = h
              /\ IF NotBoxType(h)
                 THEN /\ pc' = "scanned"
                      /\ fpos' = h.tell
                      /\ UNCHANGED <<moov_data, result, raised, caught, stack>>
                 ELSE IF h.box_type = T_moov
                 THEN IF n < -1
                      THEN Propagate("ValueError") /\ UNCHANGED <<fpos, moov_data>>
                      ELSE IF fault
                      THEN Propagate("OSError") /\ UNCHANGED <<fpos, moov_data>>
                      ELSE /\ moov_data' = FileRead(file.bytes, h.tell, n)
                           /\ fpos' = h.tell + Len(moov_data')
                           /\ pc' = "scanned"
                           /\ UNCHANGED <<result, raised, caught, stack>>
                 ELSE \E e \in SeekErrors(fpos, h) \cup (IF fault THEN {"OSError"} ELSE {}) :
                         IF e = "none"
                         THEN /\ fpos' = fpos + h.box_size
                              /\ UNCHANGED <<pc, moov_data, result, raised, caught, stack>>
                         ELSE Propagate(e) /\ UNCHANGED <<fpos, moov_data>>
    /\ UNCHANGED <<walk_ret, trunc, file, cmt_boxes, tagVars, appVars>>

\* if not moov_data: return {};  cmt_boxes = parse_container(moov_data, [...])
AfterScan ==
    /\ pc = "scanned"
    /\ IF moov_data = <<>>
       THEN ReturnEmpty /\ UNCHANGED stack
       ELSE /\ pc' = "parse"
            /\ stack' = <<NewFrame(moov_data)>>
            /\ UNCHANGED <<result, raised, caught>>
    /\ UNCHANGED <<walk_ret, trunc, file, fpos, xhdr, moov_data, cmt_boxes>>
    /\ UNCHANGED <<tagVars, appVars>>

\* if not cmt_boxes: return {};  raw_tags = extract_exif_tags(cmt_boxes)
AfterParse ==
    /\ pc = "parsed"
    /\ IF DOMAIN cmt_boxes = {}
       THEN ReturnEmpty /\ UNCHANGED tagVars
       ELSE /\ pc' = "exif"
            /\ todo' = DOMAIN cmt_boxes
            /\ raw_tags' = EmptyDict
            /\ decoded' \in [DOMAIN cmt_boxes -> Outcomes]
            /\ UNCHANGED <<result, raised, caught>>
    /\ UNCHANGED <<walkVars, file, fpos, xhdr, moov_data, cmt_boxes, appVars>>

\* return tags;  if not raw_tags: return {}
AfterExif ==
    /\ pc = "exif"
    /\ todo = {}
    /\ IF DOMAIN raw_tags = {}
       THEN ReturnEmpty
       ELSE pc' = "format" /\ UNCHANGED <<result, raised, caught>>
    /\ UNCHANGED <<walkVars, file, fpos, xhdr, moov_data, cmt_boxes, tagVars, appVars>>

(***************************************************************************)
(* ExtractSpec: extract_cr3_metadata called on a file.                     *)
(***************************************************************************)
MoovContents == {b \o t : b \in Concats(MaxPieces - 1), t \in Tails}

FileBytes ==
    {Box(T_ftyp, <<0>>) \o Box(T_moov, c) : c \in MoovContents}
    \cup
    { <<>>,
      Box(T_ftyp, <<0>>),
      Box(T_ftyp, <<0>>) \o <<0, 0, 0, 16, 109>>,
      Box(T_free, Box(T_CMT1, <<1>>)),
      Box(T_ftyp, <<0>>) \o Box(T_moov, <<>>),
      BoxSized(3, T_moov, Box(T_CMT1, <<1>>)),
      BoxSized(7, T_moov, Box(T_CMT1, <<1>>)),
      BoxSized(200, T_moov, Box(T_CMT1, <<1>>) \o <<0, 0>>),
      ExtBox(<<0, 0, 0, 0, 0, 0, 0, 25>>, T_moov, Box(T_CMT2, <<2>>)),
      BoxSized(0, T_ftyp, <<>>) \o Box(T_moov, Box(T_CMT1, <<1>>)),
      BoxSized(4, T_ftyp, <<>>) \o Box(T_moov, Box(T_CMT1, <<1>>)),
      ExtBox(<<128, 0, 0, 0, 0, 0, 0, 0>>, T_ftyp, <<>>) \o Box(T_moov, <<>>),
      ExtBox(<<0, 0, 0, 1, 0, 0, 0, 0>>, T_ftyp, <<>>) \o Box(T_moov, <<>>) }

Files ==
    {NoFile} \cup {[exists |-> TRUE, bytes |-> b, flaky |-> fl] : b \in FileBytes, fl \in BOOLEAN}

ExtractInit ==
    /\ pc = "open"
    /\ file \in Files
    /\ fpos = 0
    /\ xhdr = NoBox(0)
    /\ moov_data = <<>>
    /\ cmt_boxes = EmptyDict
    /\ caught = "none"
    /\ result = EmptyDict
    /\ raised = FALSE
    /\ WalkIdle
    /\ TagsIdle
    /\ AppIdle

ExtractNext ==
    \/ Open
    \/ Scan
    \/ AfterScan
    \/ LoopHead
    \/ Dispatch
    \/ Return
    \/ Seek
    \/ AfterParse
    \/ ExifStep
    \/ AfterExif
    \/ Format

ExtractSpec == ExtractInit /\ [][ExtractNext]_vars

(***************************************************************************)
(* Properties of extract_cr3_metadata.                                     *)
(***************************************************************************)
RecordKeys ==
    {"camera_make", "camera_model", "lens_model", "focal_length",
     "date_taken", "exposure", "aperture", "iso"}

AllUnknown == [k \in RecordKeys |-> "Unknown"]

\* C2: no exception leaves extract_cr3_metadata: whatever the file, a call that
\* ends has returned a dict.
NeverRaises == ~raised /\ pc # "failed"

\* C2's case: a call that ended after its handler caught an exception raised
\* by a seek in parse_container.
NeverRaisesWitness ==
    pc = "done" /\ caught = "OverflowError" /\ result = EmptyDict

\* C3: on every early exit (the file cannot be opened, no moov box, no target
\* block, no tag extracted) the returned record has the eight keys, each
\* "Unknown".
EarlyExitAllUnknown ==
    (/\ pc = "done"
     /\ \/ ~file.exists
        \/ /\ caught = "none"
           /\ (moov_data = <<>> \/ DOMAIN cmt_boxes = {} \/ DOMAIN raw_tags = {}))
    => result = AllUnknown

(***************************************************************************)
(* FormatSpec: format_metadata called on a Raw Tag Map holding any subset  *)
(* of the eight fields.                                                    *)
(***************************************************************************)
\* The values a field is drawn from.
FieldValues(k) ==
    CASE k = "date_taken" ->
           {"Unknown", "2023:07:04 10:15:30", "2023-07-04 10:15:30", "not a date"}
      [] k = "focal_length" -> {"Unknown", "50", "50.0 mm", "50/1", "0/0", "mm"}
      [] k = "camera_make" -> {"Unknown", "Canon"}
      [] k = "camera_model" -> {"EOS R5"}
      [] k = "lens_model" -> {"Unknown", "RF50mm"}
      [] k = "exposure" -> {"1/200"}
      [] k = "aperture" -> {"4"}
      [] OTHER -> {"100"}

RECURSIVE MapsOver(_)
\* The dicts whose keys are among `keys`, each value one of its field's.
MapsOver(keys) ==
    IF keys = {} THEN {EmptyDict}
    ELSE LET k == CHOOSE x \in keys : TRUE
             rest == MapsOver(keys \ {k})
         IN  rest \cup {DictSet(m, k, v) : m \in rest, v \in FieldValues(k)}

RawTagMaps == MapsOver(RecordKeys)

FormatInit ==
    /\ pc = "format"
    /\ raw_tags \in RawTagMaps
    /\ todo = {}
    /\ decoded = EmptyDict
    /\ result = EmptyDict
    /\ raised = FALSE
    /\ WalkIdle
    /\ ExtractIdle
    /\ AppIdle

FormatNext == Format

FormatSpec == FormatInit /\ [][FormatNext]_vars

\* C4: every record format_metadata returns has exactly the eight keys, and a
\* field absent from the Raw Tag Map is "Unknown" in it.
RecordHasEightKeys ==
    pc = "done" =>
        /\ DOMAIN result = RecordKeys
        /\ \A k \in RecordKeys \ DOMAIN raw_tags : result[k] = "Unknown"

(***************************************************************************)
(* TagSpec: extract_exif_tags called on any collected blocks, with any     *)
(* decoder outcome on each.                                                *)
(***************************************************************************)
\* The payload of a collected block; the decoder's outcome stands for what it holds.
Payload == <<0>>

TagInit ==
    /\ pc = "exif"
    /\ \E names \in SUBSET BlockNames :
          /\ cmt_boxes = [b \in names |-> Payload]
          /\ todo = names
          /\ decoded \in [names -> Outcomes]
    /\ raw_tags = EmptyDict
    /\ result = EmptyDict
    /\ raised = FALSE
    /\ file = NoFile
    /\ fpos = 0
    /\ xhdr = NoBox(0)
    /\ moov_data = <<>>
    /\ caught = "none"
    /\ WalkIdle
    /\ AppIdle

TagNext == ExifStep \/ AfterExif \/ Format

TagSpec == TagInit /\ [][TagNext]_vars

\* C8: when the loop of extract_exif_tags has ended, the Raw Tag Map holds the
\* fields of every collected block the decoder did not fail on, whatever the
\* blocks, the ones that failed and the order of the visits.
DecodedFieldsKept ==
    (todo = {} /\ pc \in {"exif", "format", "done"}) =>
        \A b \in DOMAIN cmt_boxes :
            decoded[b].ok =>
                \A k \in DOMAIN BlockFields(b, decoded[b].tags) :
                    k \in DOMAIN raw_tags /\ raw_tags[k] = BlockFields(b, decoded[b].tags)[k]

\* C8's case: the loop ended over three or more blocks of which one failed to
\* decode and another gave fields.
DecodedFieldsWitness ==
    /\ pc = "exif"
    /\ todo = {}
    /\ Cardinality(DOMAIN cmt_boxes) >= 3
    /\ \E b \in DOMAIN cmt_boxes : ~decoded[b].ok
    /\ \E b \in DOMAIN cmt_boxes : decoded[b].ok /\ DOMAIN BlockFields(b, decoded[b].tags) # {}
    /\ DOMAIN raw_tags # {}

(***************************************************************************)
(* The batch of src/app_v05.py: App.start_processing starts a thread that  *)
(* runs process_images; done_callback queues, with self.after, the call    *)
(* that re-enables the start button, and Tk's main loop runs it.           *)
(* A file of the batch is its kind and, for a CR3 file, the record         *)
(* extract_cr3_metadata returns for it.  File-system failures (makedirs,   *)
(* getmtime) are not modelled.                                             *)
(*   batch.at: "idle", "refused" (an error box was shown), "running",      *)
(*             "finished", "crashed" (an exception ended the thread)       *)
(***************************************************************************)
\* The number of files of a batch.
MaxFiles == 2

\* The Raw Tag Maps extract_exif_tags gives when CMT1, CMT2 or both decode.
BatchRawTags ==
    {BlockFields("CMT1", m) : m \in TagMaps}
    \cup {BlockFields("CMT2", m) : m \in TagMaps}
    \cup {DictUpdate(BlockFields("CMT1", m), BlockFields("CMT2", n)) : m, n \in TagMaps}

\* What extract_cr3_metadata returns: {} or a formatted record.
Cr3Records == {EmptyDict} \cup {format_metadata(r) : r \in BatchRawTags}

BatchFiles ==
    {[kind |-> "jpeg", metadata |-> EmptyDict], [kind |-> "raw", metadata |-> EmptyDict]}
    \cup {[kind |-> "cr3", metadata |-> m] : m \in Cr3Records}

RECURSIVE FileLists(_)
FileLists(n) ==
    IF n = 0 THEN {<<>>}
    ELSE LET shorter == FileLists(n - 1)
         IN  shorter \cup {Append(l, f) : l \in shorter, f \in BatchFiles}

\* get_date_taken raises: for a CR3 file whose record has a date_taken that
\* '%Y-%m-%d %H:%M:%S' does not parse.  Every other path catches its
\* exceptions and falls back to the modification time.
DateTakenRaises(f) ==
    /\ f.kind = "cr3"
    /\ "date_taken" \in DOMAIN f.metadata
    /\ f.metadata["date_taken"] # ""
    /\ ~Strptime(f.metadata["date_taken"], HyphenFormat).ok

\* float(s.split()[0]) raises
FloatOfFirstTokenRaises(s) == s \notin {"0", "50.0 mm", "50 mm"}

\* get_focal_length raises: for a CR3 file, from
\* int(float(metadata.get("focal_length", "0").split()[0])).
FocalLengthRaises(f) ==
    /\ f.kind = "cr3"
    /\ FloatOfFirstTokenRaises(DictGet(f.metadata, "focal_length", "0"))

\* App.start_processing
StartProcessing ==
    /\ pc = "app"
    /\ batch.at = "idle"
    /\ button = "normal"
    /\ IF batch.dirs_ok
       THEN /\ button' = "disabled"
            /\ batch' = [batch EXCEPT !.at = "running"]
       ELSE /\ batch' = [batch EXCEPT !.at = "refused"]
            /\ UNCHANGED button
    /\ UNCHANGED <<pc, done_calls, result, raised, walkVars, xVars, tagVars>>

\* One iteration of `for file_path in files_to_process:`.
ProcessFile ==
    /\ pc = "app"
    /\ batch.at = "running"
    /\ batch.i <= Len(batch.files)
    /\ LET f == batch.files[batch.i]
       IN  IF DateTakenRaises(f) \/ (batch.sort /\ FocalLengthRaises(f))
           THEN batch' = [batch EXCEPT !.at = "crashed"]
           ELSE batch' = [batch EXCEPT !.i = batch.i + 1, !.processed = batch.processed + 1]
    /\ UNCHANGED <<pc, button, done_calls, result, raised, walkVars, xVars, tagVars>>

\* log_callback("Processing complete.\n"); done_callback()
Finish ==
    /\ pc = "app"
    /\ batch.at = "running"
    /\ batch.i > Len(batch.files)
    /\ batch' = [batch EXCEPT !.at = "finished", !.after = batch.after + 1]
    /\ done_calls' = done_calls + 1
    /\ UNCHANGED <<pc, button, result, raised, walkVars, xVars, tagVars>>

\* The main loop runs the callable queued by self.after(0, ...).
RunAfter ==
    /\ pc = "app"
    /\ batch.after > 0
    /\ button' = "normal"
    /\ batch' = [batch EXCEPT !.after = batch.after - 1]
    /\ UNCHANGED <<pc, done_calls, result, raised, walkVars, xVars, tagVars>>

BatchInit ==
    /\ pc = "app"
    /\ \E files \in FileLists(MaxFiles), ok \in BOOLEAN, sort \in BOOLEAN :
          batch = [NoBatch EXCEPT !.files = files, !.dirs_ok = ok, !.sort = sort]
    /\ button = "normal"
    /\ done_calls = 0
    /\ result = EmptyDict
    /\ raised = FALSE
    /\ WalkIdle
    /\ ExtractIdle
    /\ TagsIdle

BatchNext == StartProcessing \/ ProcessFile \/ Finish \/ RunAfter

\* The thread runs its next statement and the main loop its next callback.
BatchSpec == BatchInit /\ [][BatchNext]_vars /\ WF_vars(BatchNext)

\* C9: every batch that was started processes every listed file and calls
\* done_callback once, and the disabled start button is enabled again.
BatchCompletes ==
    (batch.at = "running") ~>
        (/\ batch.processed = Len(batch.files)
         /\ done_calls = 1
         /\ button = "normal")

(***************************************************************************)
(* Properties of boxes that declare more than the buffer holds, and of the *)
(* top-level scan.                                                         *)
(***************************************************************************)
\* C11: a box whose declared size reaches past the end of the buffer is
\* skipped: parse_container neither stores its (clipped) content as a target
\* block nor walks it, so cmt_boxes is after the box what it was before it.
OversizedBoxSkipped ==
    \A f \in Frames :
        (/\ ~f.hdr.none
         /\ f.at \in {"call", "seek"}
         /\ f.pos + f.hdr.box_size > Len(f.data))
        => (f.at = "seek" /\ ~f.called /\ f.cmt = f.cmt0)

\* C12: between two iterations of the top-level scan of extract_cr3_metadata
\* the file position strictly increases, so the scan reaches a moov box, a
\* failure sentinel or the end of the file after finitely many iterations.
ScanAdvances ==
    [][(pc = "scan" /\ pc' = "scan") => fpos' > fpos]_vars
====
